---------------------------- MODULE Spec2Model ----------------------------
(***************************************************************************)
(* Emergency Response API (backend/server.py): the instruction catalog     *)
(* with its startup bootstrap, and the help-request ledger with its        *)
(* create / update / get / list handlers, over a shared document store.    *)
(*                                                                         *)
(* Several server processes share the store.  Every await in the source    *)
(* is a point where other handlers and other processes may run, so each    *)
(* store call is one atomic step and the synchronous code before it        *)
(* belongs to the step that precedes the await.                            *)
(***************************************************************************)
EXTENDS Integers, Sequences, FiniteSets, TLC

\* ------------------------------------------------------------------ bounds
\* Server processes (process lifetimes) started against the same store.
NumProcs == 2
\* Writing calls (create, update) the servers accept over a run.
MaxCalls == 3
\* Largest reading of the wall clock.
MaxClock == 1

Procs == 1..NumProcs

\* --------------------------------------------------------------- constants
\* Enums (server.py 29-43).
EmergencyType == {"choking", "bleeding", "allergic_reaction"}

HelpRequestStatus == {"active", "responded", "resolved"}

SeverityLevel == {"minor", "moderate", "severe", "critical"}

\* Python's None, for the Optional[...] fields.
None == "None"

\* length argument of every to_list call.
ToListLength == 1000

\* HTTP status codes of the boundary.
HTTP_OK == 200

HTTP_NOT_FOUND == 404

HTTP_UNPROCESSABLE == 422

\* An identifier uuid4 never returned (the tests' "invalid-id-12345").
NonexistentId == 0

\* The reference set built by initialize_emergency_data, without the two
\* fields the model constructor fills in (id, created_at).
instructions_data ==
  <<
  [ type |-> "choking",
    title |-> "Adult Choking (Conscious)",
    description |-> "For conscious adults who cannot cough, speak, or breathe",
    severity |-> "critical",
    duration_estimate |-> "1-2 minutes",
    when_to_call_911 |-> "If person becomes unconscious or obstruction doesn't clear",
    steps |-> <<
       "Stand behind the person",
       "Place arms around their waist",
       "Make a fist with one hand, place thumb side against abdomen above navel",
       "Grasp fist with other hand, press hard into abdomen with quick upward thrust",
       "Repeat until object is expelled or person becomes unconscious" >>,
    voice_instructions |-> <<
       "Stand behind the choking person",
       "Wrap your arms around their waist",
       "Make a fist and place it above their belly button",
       "Grab your fist with your other hand",
       "Push hard and quick upward into their abdomen",
       "Keep doing this until the object comes out" >> ],
  [ type |-> "choking",
    title |-> "Child Choking (1-8 years)",
    description |-> "For conscious children who cannot cough, speak, or breathe",
    severity |-> "critical",
    duration_estimate |-> "1-2 minutes",
    when_to_call_911 |-> "Immediately, even if obstruction clears",
    steps |-> <<
       "Kneel behind child or stand if child is small",
       "Place arms around child's waist",
       "Make fist, place thumb side against abdomen above navel, below breastbone",
       "Press hard into abdomen with quick upward thrusts",
       "Be gentler than with adults",
       "Continue until object is expelled" >>,
    voice_instructions |-> <<
       "Get behind the child at their level",
       "Put your arms around their waist",
       "Make a fist above their belly button, below the chest",
       "Push gently but firmly upward",
       "Keep doing this until the object comes out",
       "Call nine one one immediately" >> ],
  [ type |-> "bleeding",
    title |-> "Severe Bleeding Control",
    description |-> "For heavy bleeding from cuts or wounds",
    severity |-> "severe",
    duration_estimate |-> "Until medical help arrives",
    when_to_call_911 |-> "For any severe bleeding that won't stop",
    steps |-> <<
       "Apply direct pressure with clean cloth or bandage",
       "Press firmly on the wound",
       "If blood soaks through, add more layers without removing original",
       "Raise injured area above heart level if possible",
       "Continue pressure until bleeding stops or help arrives" >>,
    voice_instructions |-> <<
       "Put a clean cloth directly on the wound",
       "Press down firmly with your hands",
       "If blood soaks through, add more cloth on top",
       "Keep pressing without stopping",
       "Lift the injured part higher than the heart if you can",
       "Don't stop pressing until help arrives" >> ],
  [ type |-> "bleeding",
    title |-> "Minor Cut Treatment",
    description |-> "For small cuts and scrapes",
    severity |-> "minor",
    duration_estimate |-> "5-10 minutes",
    when_to_call_911 |-> "If bleeding won't stop after 10 minutes of pressure",
    steps |-> <<
       "Clean hands before treating wound",
       "Apply gentle pressure with clean cloth",
       "Clean wound gently with water",
       "Apply antibiotic ointment if available",
       "Cover with sterile bandage",
       "Change bandage daily and keep wound clean" >>,
    voice_instructions |-> <<
       "First, wash your hands",
       "Put gentle pressure on the cut with a clean cloth",
       "When bleeding stops, clean the cut with water",
       "Put on antibiotic cream if you have it",
       "Cover with a clean bandage",
       "Change the bandage every day" >> ],
  [ type |-> "allergic_reaction",
    title |-> "Severe Allergic Reaction (Anaphylaxis)",
    description |-> "Life-threatening allergic reaction with breathing problems",
    severity |-> "critical",
    duration_estimate |-> "Immediate action required",
    when_to_call_911 |-> "Immediately for severe allergic reactions",
    steps |-> <<
       "Call 911 immediately",
       "Use epinephrine auto-injector (EpiPen) if available",
       "Help person lie down with legs elevated",
       "Remove or avoid allergen if known",
       "Monitor breathing and pulse",
       "Be prepared to perform CPR if needed" >>,
    voice_instructions |-> <<
       "Call nine one one right now",
       "If there's an EpiPen, use it on the outer thigh",
       "Help the person lie down",
       "Lift their legs up",
       "Stay with them and watch their breathing",
       "Be ready to do CPR if they stop breathing" >> ],
  [ type |-> "allergic_reaction",
    title |-> "Mild Allergic Reaction",
    description |-> "Minor allergic reactions with skin or mild symptoms",
    severity |-> "minor",
    duration_estimate |-> "Monitor for 30 minutes",
    when_to_call_911 |-> "If symptoms worsen or breathing becomes difficult",
    steps |-> <<
       "Remove or avoid the allergen",
       "Give antihistamine if available (Benadryl)",
       "Apply cool compress to affected skin",
       "Monitor for worsening symptoms",
       "Seek medical attention if symptoms persist or worsen" >>,
    voice_instructions |-> <<
       "Stay away from whatever caused the reaction",
       "Take an antihistamine like Benadryl if you have it",
       "Put a cool cloth on itchy skin",
       "Watch carefully for any worsening",
       "Get medical help if it gets worse" >> ]
  >>

VARIABLES
  emergency_instructions,  \* db.emergency_instructions: set of documents
  help_requests,           \* db.help_requests: set of documents
  pc,                      \* per process: "start", "inserting", "serving", "failed"
  instructions,            \* per process: the list initialize_emergency_data built
  next_insert,             \* per process: index of the next instruction to insert
  uuid_count,              \* identifiers uuid4 has handed out so far
  now,                     \* the wall clock datetime.utcnow reads
  creating,                \* create_help_request calls awaiting insert_one
  updating,                \* update_help_request calls awaiting find_one_and_update
  calls,                   \* writing calls accepted so far
  response                 \* the response of the writing handler that completed last

vars == << emergency_instructions, help_requests, pc, instructions, next_insert,
           uuid_count, now, creating, updating, response, calls >>

\* ------------------------------------------------------------ the store
\* Collection.count_documents({}).
count_documents(collection) == Cardinality(collection)

\* Mutant of insert_one: an upsert keyed on the type, which replaces the
\* documents of the new document's type.
insert_one_upsert_by_type(collection, document) ==
  {d \in collection : d.type # document.type} \cup {document}

\* Collection.insert_one(document).
insert_one(collection, document) == collection \cup {document}

\* A query document {key: value, ...} matches the documents that carry each
\* of its values under its key; the empty query {} matches every document.
Matches(d, filter) == \A key \in DOMAIN filter : d[key] = filter[key]

\* Collection.find(filter): the documents the filter matches.
find(collection, filter) == {d \in collection : Matches(d, filter)}

\* Cursor.to_list(length): at most length documents of the cursor; when the
\* cursor has more, which of them are left out is the store's choice.
RECURSIVE to_list(_, _)
to_list(cursor, length) ==
  IF Cardinality(cursor) <= length THEN cursor
  ELSE to_list(cursor \ {CHOOSE d \in cursor : TRUE}, length)

\* Collection.find_one(filter): one matching document, or none; as a set.
find_one(collection, filter) ==
  LET found == find(collection, filter)
  IN  IF found = {} THEN {} ELSE {CHOOSE d \in found : TRUE}

\* Collection.find_one_and_update({"id": request_id}, {"$set": update_dict},
\* return_document=True): one atomic store step.  No upsert: without a
\* match the collection is left as it is and the result is None (empty).
\* The matched document has the fields of update_dict overwritten and is
\* returned as it is after the update.
\* Mutants of updated_document: a $set that leaves out one of the two fields.
updated_document_keeps_status(d, update_dict) ==
  [d EXCEPT !.updated_at = update_dict.updated_at]

updated_document_keeps_updated_at(d, update_dict) ==
  [d EXCEPT !.status = update_dict.status]

\* Mutant of updated_document: the $set also stamps created_at.
updated_document_stamps_created_at(d, update_dict) ==
  [d EXCEPT !.status = update_dict.status,
            !.updated_at = update_dict.updated_at,
            !.created_at = update_dict.updated_at]

\* Mutant of updated_document: resolved is terminal, a resolved document is
\* left as it is.
updated_document_resolved_is_terminal(d, update_dict) ==
  IF d.status = "resolved"
    THEN d
    ELSE [d EXCEPT !.status = update_dict.status,
                   !.updated_at = update_dict.updated_at]

updated_document(d, update_dict) ==
  [d EXCEPT !.status = update_dict.status, !.updated_at = update_dict.updated_at]

find_one_and_update_result(collection, request_id, update_dict) ==
  LET found == find_one(collection, [id |-> request_id])
  IN  {updated_document(d, update_dict) : d \in found}

\* Mutant of find_one_and_update: upsert=True, which inserts the update's
\* fields under the id when nothing matches.
find_one_and_update_upsert(collection, request_id, update_dict) ==
  LET found == find_one(collection, [id |-> request_id])
  IN  IF found = {}
        THEN collection \cup {[ id |-> request_id,
                                status |-> update_dict.status,
                                updated_at |-> update_dict.updated_at ]}
        ELSE (collection \ found)
               \cup find_one_and_update_result(collection, request_id, update_dict)

\* Mutant of find_one_and_update: resolution as removal, a document set to
\* resolved is taken out of the collection.
find_one_and_update_resolved_removes(collection, request_id, update_dict) ==
  LET found == find_one(collection, [id |-> request_id])
  IN  IF update_dict.status = "resolved"
        THEN collection \ found
        ELSE (collection \ found)
               \cup find_one_and_update_result(collection, request_id, update_dict)

find_one_and_update(collection, request_id, update_dict) ==
  LET found == find_one(collection, [id |-> request_id])
  IN  (collection \ found)
        \cup find_one_and_update_result(collection, request_id, update_dict)

\* ------------------------------------------------------------ the models
\* Mutant of uuid4: default=str(uuid.uuid4()) instead of default_factory,
\* one identifier drawn when the class is defined and given to every record.
uuid4_at_import == Len(instructions_data) + 1

\* uuid.uuid4(): an identifier never handed out before.
uuid4 == uuid_count + 1

\* EmergencyInstruction(...): the reference fields plus a generated id and
\* the clock reading at construction (server.py 46-56).
EmergencyInstruction(fields, id, created_at) ==
  [ id |-> id,
    type |-> fields.type,
    title |-> fields.title,
    description |-> fields.description,
    steps |-> fields.steps,
    voice_instructions |-> fields.voice_instructions,
    severity |-> fields.severity,
    duration_estimate |-> fields.duration_estimate,
    when_to_call_911 |-> fields.when_to_call_911,
    created_at |-> created_at ]

\* A key a request body does not carry.
Missing == "Missing"

\* Request bodies a client posts to /help-requests: the test's body, a
\* minimal body whose location_description is the empty string, and a body
\* without the required location_description.
RequestBodies ==
  { [ emergency_type |-> "choking",
      location_description |-> "123 Test Street, Apartment 4B",
      latitude |-> "40.7128", longitude |-> "-74.0060",
      contact_phone |-> "+1-555-0123",
      additional_info |-> "Adult choking on food in restaurant" ],
    [ emergency_type |-> "bleeding",
      location_description |-> "",
      latitude |-> Missing, longitude |-> Missing,
      contact_phone |-> Missing, additional_info |-> Missing ],
    [ emergency_type |-> "choking",
      location_description |-> Missing,
      latitude |-> Missing, longitude |-> Missing,
      contact_phone |-> Missing, additional_info |-> Missing ] }

\* Optional[...] = None: a missing key takes the default.
Optional(value) == IF value = Missing THEN None ELSE value

\* HelpRequestCreate's validation of a body (server.py 70-76): the type must
\* be a member of the enum and location_description, a plain str, must be
\* present; any string, the empty one included, is accepted.
HelpRequestCreateValid(body) ==
  /\ body.emergency_type \in EmergencyType
  /\ body.location_description # Missing

HelpRequestCreate(body) ==
  [ emergency_type |-> body.emergency_type,
    location_description |-> body.location_description,
    latitude |-> Optional(body.latitude),
    longitude |-> Optional(body.longitude),
    contact_phone |-> Optional(body.contact_phone),
    additional_info |-> Optional(body.additional_info) ]

\* HelpRequest(**help_request.dict()) (server.py 58-68): the input's fields,
\* a generated id, status ACTIVE, and two default factories that each read
\* the clock: created_at first, updated_at second.
HelpRequest(input, id, created_at, updated_at) ==
  [ id |-> id,
    emergency_type |-> input.emergency_type,
    location_description |-> input.location_description,
    latitude |-> input.latitude,
    longitude |-> input.longitude,
    contact_phone |-> input.contact_phone,
    additional_info |-> input.additional_info,
    status |-> "active",
    created_at |-> created_at,
    updated_at |-> updated_at ]

\* A handler's response: the handler, the HTTP status and the documents of
\* the body (a single object is a one-element set, an error has none).  A
\* reading handler changes nothing, so its response is a function of the
\* state it reads (the ..._response operators); the response of a writing
\* handler (create, update) is kept in the variable response.
Response(op, code, body) == [op |-> op, code |-> code, body |-> body]

\* The startup hook completes before a process accepts requests.
Serving == \E p \in Procs : pc[p] = "serving"

\* Identifiers a client can hold: those of stored requests (returned by
\* create or listed), and one that was never issued.
RequestIds == {d.id : d \in help_requests} \cup {NonexistentId}

\* ------------------------------------------------------------------ Init
Init ==
  /\ emergency_instructions = {}
  /\ help_requests = {}
  /\ pc = [p \in Procs |-> "start"]
  /\ instructions = [p \in Procs |-> << >>]
  /\ next_insert = [p \in Procs |-> 1]
  /\ uuid_count = 0
  /\ now = 0
  /\ creating = {}
  /\ updating = {}
  /\ response = Response("none", 0, {})
  /\ calls = 0

\* ------------------------------------------------------------- bootstrap
\* Mutant of existing_count: the count is taken of the wrong collection.
existing_count_of_requests == count_documents(help_requests)

\* initialize_emergency_data up to its first insert (server.py 82-232),
\* called by startup_db (313-317): count the catalog; return when it holds
\* anything, otherwise build the list of instructions.
existing_count == count_documents(emergency_instructions)

initialize_emergency_data(p) ==
  /\ pc[p] = "start"
  /\ IF existing_count > 0
       THEN /\ pc' = [pc EXCEPT ![p] = "serving"]
            /\ UNCHANGED << instructions, next_insert, uuid_count >>
       ELSE /\ pc' = [pc EXCEPT ![p] = "inserting"]
            /\ instructions' = [instructions EXCEPT ![p] =
                 [i \in 1..Len(instructions_data) |->
                    EmergencyInstruction(instructions_data[i], uuid_count + i, now)]]
            /\ next_insert' = [next_insert EXCEPT ![p] = 1]
            /\ uuid_count' = uuid_count + Len(instructions_data)
  /\ UNCHANGED << emergency_instructions, help_requests, now, creating, updating,
                  response, calls >>

\* Mutant of insert_instruction: every turn of the loop inserts the first
\* instruction of the list.
insert_instruction_first(p) ==
  /\ pc[p] = "inserting"
  /\ emergency_instructions' = insert_one(emergency_instructions, instructions[p][1])
  /\ IF next_insert[p] = Len(instructions[p])
       THEN /\ pc' = [pc EXCEPT ![p] = "serving"]
            /\ instructions' = [instructions EXCEPT ![p] = << >>]
            /\ next_insert' = [next_insert EXCEPT ![p] = 1]
       ELSE /\ next_insert' = [next_insert EXCEPT ![p] = @ + 1]
            /\ UNCHANGED << pc, instructions >>
  /\ UNCHANGED << help_requests, uuid_count, now, creating, updating, response,
                  calls >>

\* One turn of the insert loop (server.py 235-236); after the last insert
\* startup_db returns and the process serves.
insert_instruction(p) ==
  /\ pc[p] = "inserting"
  /\ emergency_instructions' =
       insert_one(emergency_instructions, instructions[p][next_insert[p]])
  /\ IF next_insert[p] = Len(instructions[p])
       THEN /\ pc' = [pc EXCEPT ![p] = "serving"]
            /\ instructions' = [instructions EXCEPT ![p] = << >>]
            /\ next_insert' = [next_insert EXCEPT ![p] = 1]
       ELSE /\ next_insert' = [next_insert EXCEPT ![p] = @ + 1]
            /\ UNCHANGED << pc, instructions >>
  /\ UNCHANGED << help_requests, uuid_count, now, creating, updating, response,
                  calls >>

\* An awaited insert raises (the store is unavailable) or the process is
\* killed: startup ends part-way through the loop and the process never
\* serves.  What it inserted stays in the catalog.
startup_fails(p) ==
  /\ pc[p] = "inserting"
  /\ pc' = [pc EXCEPT ![p] = "failed"]
  /\ instructions' = [instructions EXCEPT ![p] = << >>]
  /\ next_insert' = [next_insert EXCEPT ![p] = 1]
  /\ UNCHANGED << emergency_instructions, help_requests, uuid_count, now,
                  creating, updating, response, calls >>

\* -------------------------------------------------------------- catalog
\* GET /api/ (server.py 239-241).
root_response == Response("root", HTTP_OK, {})

root ==
  /\ Serving
  /\ UNCHANGED vars

\* GET /api/emergency-instructions (server.py 243-247).
get_all_instructions_response ==
  Response("get_all_instructions", HTTP_OK,
           to_list(find(emergency_instructions, << >>), ToListLength))

get_all_instructions ==
  /\ Serving
  /\ UNCHANGED vars

\* Path tokens a client sends for {emergency_type}.
TypeTokens == EmergencyType \cup {"invalid_type"}

\* Mutant of get_instructions_by_type_response: find() without the type
\* filter.
get_instructions_by_type_response_unfiltered(emergency_type) ==
  IF emergency_type \notin EmergencyType
    THEN Response("get_instructions_by_type", HTTP_UNPROCESSABLE, {})
    ELSE LET found == to_list(find(emergency_instructions, << >>),
                              ToListLength)
         IN  IF found = {}
               THEN Response("get_instructions_by_type", HTTP_NOT_FOUND, {})
               ELSE Response("get_instructions_by_type", HTTP_OK, found)

\* GET /api/emergency-instructions/{emergency_type} (server.py 249-255).  The
\* parameter is declared EmergencyType, so the boundary answers a token
\* outside the enum with 422 before the handler runs.
get_instructions_by_type_response(emergency_type) ==
  IF emergency_type \notin EmergencyType
    THEN Response("get_instructions_by_type", HTTP_UNPROCESSABLE, {})
    ELSE LET found == to_list(find(emergency_instructions,
                                   [type |-> emergency_type]),
                              ToListLength)
         IN  IF found = {}
               THEN Response("get_instructions_by_type", HTTP_NOT_FOUND, {})
               ELSE Response("get_instructions_by_type", HTTP_OK, found)

get_instructions_by_type(emergency_type) ==
  /\ Serving
  /\ UNCHANGED vars

\* ---------------------------------------------------------------- ledger
\* POST /api/help-requests, up to the await (server.py 257-260).  A body that
\* fails HelpRequestCreate's validation is answered 422 by the boundary.
\* Otherwise help_obj is constructed: the two default factories read the
\* clock one after the other, and the clock may advance between them.
create_help_request(body) ==
  /\ Serving
  /\ IF ~HelpRequestCreateValid(body)
       THEN /\ response' = Response("create_help_request", HTTP_UNPROCESSABLE, {})
            /\ UNCHANGED << uuid_count, now, creating, calls >>
       ELSE /\ calls < MaxCalls
            /\ calls' = calls + 1
            /\ \E updated_at \in {now, now + 1} :
                 /\ updated_at <= MaxClock
                 /\ creating' = creating \cup
                      {HelpRequest(HelpRequestCreate(body), uuid4, now, updated_at)}
                 /\ now' = updated_at
            /\ uuid_count' = uuid_count + 1
            /\ UNCHANGED response
  /\ UNCHANGED << emergency_instructions, help_requests, pc, instructions,
                  next_insert, updating >>

\* The awaited insert_one and the return (server.py 261-262).
create_help_request_insert(help_obj) ==
  /\ help_obj \in creating
  /\ help_requests' = insert_one(help_requests, help_obj)
  /\ creating' = creating \ {help_obj}
  /\ response' = Response("create_help_request", HTTP_OK, {help_obj})
  /\ UNCHANGED << emergency_instructions, pc, instructions, next_insert,
                  uuid_count, now, updating, calls >>

\* Mutant of get_help_requests_response: find() without the status filter.
get_help_requests_response_unfiltered ==
  Response("get_help_requests", HTTP_OK,
           to_list(find(help_requests, << >>), ToListLength))

\* GET /api/help-requests (server.py 264-268).
get_help_requests_response ==
  Response("get_help_requests", HTTP_OK,
           to_list(find(help_requests, [status |-> "active"]),
                   ToListLength))

get_help_requests ==
  /\ Serving
  /\ UNCHANGED vars

\* PUT /api/help-requests/{request_id}, up to the await (server.py 270-274):
\* update_dict is the validated status plus a reading of the clock.
update_help_request(request_id, status) ==
  /\ Serving
  /\ calls < MaxCalls
  /\ calls' = calls + 1
  /\ updating' = updating \cup
       {[ request_id |-> request_id,
          update_dict |-> [status |-> status, updated_at |-> now] ]}
  /\ UNCHANGED << emergency_instructions, help_requests, pc, instructions,
                  next_insert, uuid_count, now, creating, response >>

\* The awaited find_one_and_update and the return (server.py 276-285).
update_help_request_response(result) ==
  IF result = {}
    THEN Response("update_help_request", HTTP_NOT_FOUND, {})
    ELSE Response("update_help_request", HTTP_OK, result)

update_help_request_store(call) ==
  /\ call \in updating
  /\ help_requests' =
       find_one_and_update(help_requests, call.request_id, call.update_dict)
  /\ response' = update_help_request_response(
       find_one_and_update_result(help_requests, call.request_id, call.update_dict))
  /\ updating' = updating \ {call}
  /\ UNCHANGED << emergency_instructions, pc, instructions, next_insert,
                  uuid_count, now, creating, calls >>

\* Mutant of get_help_request_response: find_one() without the id filter.
get_help_request_response_any(request_id) ==
  LET request == find_one(help_requests, << >>)
  IN  IF request = {}
        THEN Response("get_help_request", HTTP_NOT_FOUND, {})
        ELSE Response("get_help_request", HTTP_OK, request)

\* GET /api/help-requests/{request_id} (server.py 287-293).
get_help_request_response(request_id) ==
  LET request == find_one(help_requests, [id |-> request_id])
  IN  IF request = {}
        THEN Response("get_help_request", HTTP_NOT_FOUND, {})
        ELSE Response("get_help_request", HTTP_OK, request)

get_help_request(request_id) ==
  /\ Serving
  /\ UNCHANGED vars

\* ----------------------------------------------------------------- clock
\* Time passes.  Readings never decrease; two readings may be equal.
Tick ==
  /\ now < MaxClock
  /\ now' = now + 1
  /\ UNCHANGED << emergency_instructions, help_requests, pc, instructions,
                  next_insert, uuid_count, creating, updating, response, calls >>

\* ------------------------------------------------------------------ Next
Next ==
  \/ \E p \in Procs : initialize_emergency_data(p)
  \/ \E p \in Procs : insert_instruction(p)
  \/ \E p \in Procs : startup_fails(p)
  \/ root
  \/ get_all_instructions
  \/ \E emergency_type \in TypeTokens : get_instructions_by_type(emergency_type)
  \/ \E body \in RequestBodies : create_help_request(body)
  \/ \E help_obj \in creating : create_help_request_insert(help_obj)
  \/ get_help_requests
  \/ \E request_id \in RequestIds, status \in HelpRequestStatus :
       update_help_request(request_id, status)
  \/ \E call \in updating : update_help_request_store(call)
  \/ \E request_id \in RequestIds : get_help_request(request_id)
  \/ Tick

Spec == Init /\ [][Next]_vars

\* ------------------------------------------------- the parts of the system
\* Startup and the catalog: every process's bootstrap and the catalog's
\* readers, with no help request filed.
NextStartup ==
  \/ \E p \in Procs : initialize_emergency_data(p)
  \/ \E p \in Procs : insert_instruction(p)
  \/ \E p \in Procs : startup_fails(p)
  \/ root
  \/ get_all_instructions
  \/ \E emergency_type \in TypeTokens : get_instructions_by_type(emergency_type)
  \/ Tick

SpecStartup == Init /\ [][NextStartup]_vars

\* A state Spec reaches at clock 0: process 1 counted an empty catalog,
\* inserted the reference set and serves; the processes in `started` came
\* after it, found the catalog seeded and serve; the others have yet to
\* start.
Seeded(started) ==
  /\ emergency_instructions =
       {EmergencyInstruction(instructions_data[i], i, 0) :
          i \in 1..Len(instructions_data)}
  /\ help_requests = {}
  /\ pc = [p \in Procs |->
            IF p \in started \cup {1} THEN "serving" ELSE "start"]
  /\ instructions = [p \in Procs |-> << >>]
  /\ next_insert = [p \in Procs |-> 1]
  /\ uuid_count = Len(instructions_data)
  /\ now = 0
  /\ creating = {}
  /\ updating = {}
  /\ response = Response("none", 0, {})
  /\ calls = 0

\* The ledger: every process serves, and every handler of the help requests
\* runs under every interleaving of the store calls.
InitLedger == Seeded(Procs)

NextLedger ==
  \/ \E body \in RequestBodies : create_help_request(body)
  \/ \E help_obj \in creating : create_help_request_insert(help_obj)
  \/ get_help_requests
  \/ \E request_id \in RequestIds, status \in HelpRequestStatus :
       update_help_request(request_id, status)
  \/ \E call \in updating : update_help_request_store(call)
  \/ \E request_id \in RequestIds : get_help_request(request_id)
  \/ Tick

SpecLedger == InitLedger /\ [][NextLedger]_vars

\* Restarts: process 1 serves and takes help requests while the other
\* processes start, one after the other or together, on the seeded catalog.
InitRestart == Seeded({})

NextRestart ==
  \/ \E p \in Procs : initialize_emergency_data(p)
  \/ \E body \in RequestBodies : create_help_request(body)
  \/ \E help_obj \in creating : create_help_request_insert(help_obj)
  \/ get_help_requests
  \/ Tick

SpecRestart == InitRestart /\ [][NextRestart]_vars

\* The ledger at the listing limit: every process serves, and as many help
\* requests as one to_list call returns have been filed and are active
\* (from one body, at clock 0); the budget of writing calls counts from
\* here.  From there, further requests are filed and the active ones listed.
InitFull ==
  /\ emergency_instructions =
       {EmergencyInstruction(instructions_data[i], i, 0) :
          i \in 1..Len(instructions_data)}
  /\ \E body \in {b \in RequestBodies : HelpRequestCreateValid(b)} :
       help_requests =
         {HelpRequest(HelpRequestCreate(body), Len(instructions_data) + n, 0, 0) :
            n \in 1..ToListLength}
  /\ pc = [p \in Procs |-> "serving"]
  /\ instructions = [p \in Procs |-> << >>]
  /\ next_insert = [p \in Procs |-> 1]
  /\ uuid_count = Len(instructions_data) + ToListLength
  /\ now = 0
  /\ creating = {}
  /\ updating = {}
  /\ response = Response("none", 0, {})
  /\ calls = 0

NextFull ==
  \/ \E body \in RequestBodies : create_help_request(body)
  \/ \E help_obj \in creating : create_help_request_insert(help_obj)
  \/ get_help_requests
  \/ Tick

SpecFull == InitFull /\ [][NextFull]_vars

\* ================================================================ claims
\* Identifiers of the stored help requests.
StoredIds == {d.id : d \in help_requests}

\* The update call's store step finds its record.
UpdateSucceeds(call) ==
  /\ update_help_request_store(call)
  /\ call.request_id \in StoredIds

\* ---------------------------------------------------------------- C1
\* C1 as claimed: once update(id, responded) has succeeded, get(id) returns
\* status responded and an updatedAt strictly greater than the record's
\* createdAt.
C1_LifecycleStrictlyLater ==
  [][\A call \in updating :
       (UpdateSucceeds(call) /\ call.update_dict.status = "responded") =>
         LET got == get_help_request_response(call.request_id)'
         IN  /\ got.code = HTTP_OK
             /\ \A d \in got.body :
                  d.status = "responded" /\ d.updated_at > d.created_at]_vars

\* C1 amended: once update(id, responded) has succeeded, get(id) returns
\* exactly one record, with that id, status responded, the update's clock
\* reading as updatedAt, and updatedAt greater than or equal to createdAt.
C1_LifecycleNotEarlier ==
  [][\A call \in updating :
       (UpdateSucceeds(call) /\ call.update_dict.status = "responded") =>
         LET got == get_help_request_response(call.request_id)'
         IN  /\ got.code = HTTP_OK
             /\ Cardinality(got.body) = 1
             /\ \A d \in got.body :
                  /\ d.id = call.request_id
                  /\ d.status = "responded"
                  /\ d.updated_at = call.update_dict.updated_at
                  /\ d.updated_at >= d.created_at]_vars

\* C1 witness: update(id, responded) succeeded on a record, get(id) returns
\* it, and its updatedAt equals its createdAt.
C1_Witness ==
  /\ response.op = "update_help_request"
  /\ response.code = HTTP_OK
  /\ \E d \in response.body :
       /\ d.status = "responded"
       /\ d.updated_at = d.created_at
       /\ get_help_request_response(d.id).body = {d}

\* ---------------------------------------------------------------- C2
\* C2: every record create() returns (and has just persisted) has createdAt
\* equal to updatedAt.
C2_CreatedAtEqualsUpdatedAt ==
  (response.op = "create_help_request" /\ response.code = HTTP_OK) =>
    \A d \in response.body : d.created_at = d.updated_at

\* ---------------------------------------------------------------- C3
\* The value create() stores for a field of the body: the body's value, or
\* None when the body does not carry the key.
Given(value) == IF value = "Missing" THEN "None" ELSE value

\* C3: a successful create(input) constructs one record with a fresh id,
\* status active and the input's fields, and its insert adds exactly that
\* record to the ledger: the id is that of no stored record, every stored
\* record stays as it is, the catalog is unchanged and the record returned
\* is the record persisted.
C3_CreationEffect ==
  [][/\ \A body \in RequestBodies :
          (create_help_request(body) /\ body.location_description # "Missing") =>
            /\ \E help_obj \in creating' :
                 /\ creating' = creating \cup {help_obj}
                 /\ help_obj \notin creating
                 /\ help_obj.id \notin StoredIds \cup {h.id : h \in creating}
                 /\ help_obj.status = "active"
                 /\ help_obj.emergency_type = body.emergency_type
                 /\ help_obj.location_description = body.location_description
                 /\ help_obj.latitude = Given(body.latitude)
                 /\ help_obj.longitude = Given(body.longitude)
                 /\ help_obj.contact_phone = Given(body.contact_phone)
                 /\ help_obj.additional_info = Given(body.additional_info)
            /\ help_requests' = help_requests
            /\ emergency_instructions' = emergency_instructions
     /\ \A help_obj \in creating :
          create_help_request_insert(help_obj) =>
            /\ help_requests' = help_requests \cup {help_obj}
            /\ Cardinality(help_requests') = Cardinality(help_requests) + 1
            /\ help_obj.id \notin StoredIds
            /\ help_obj.status = "active"
            /\ emergency_instructions' = emergency_instructions
            /\ response' = Response("create_help_request", HTTP_OK, {help_obj})]_vars

\* C3 witness: create() has just returned a record that is in the ledger
\* beside another record.
C3_Witness ==
  /\ response.op = "create_help_request"
  /\ response.code = HTTP_OK
  /\ \E d \in response.body :
       /\ d \in help_requests
       /\ d.status = "active"
       /\ d.latitude = "None"
       /\ \E other \in help_requests : other.id # d.id /\ other.latitude # "None"

\* ---------------------------------------------------------------- C4
\* C4: every record listActive() returns is a stored record whose status is
\* active, and a record whose latest successful update set it to responded
\* or resolved is not in the result.
C4_ListActiveOnlyActive ==
  /\ get_help_requests_response.code = HTTP_OK
  /\ \A d \in get_help_requests_response.body :
       d \in help_requests /\ d.status = "active"
  /\ (response.op = "update_help_request" /\ response.code = HTTP_OK) =>
       \A d \in response.body :
         d.status \in {"responded", "resolved"} =>
           d.id \notin {a.id : a \in get_help_requests_response.body}

\* C4 witness: a record was just set to resolved, another stored record is
\* active, and listActive() returns the active one alone.
C4_Witness ==
  /\ response.op = "update_help_request"
  /\ response.code = HTTP_OK
  /\ \E d \in response.body, a \in help_requests :
       /\ d.status = "resolved"
       /\ d \in help_requests
       /\ a.status = "active"
       /\ get_help_requests_response.body = {a}

\* ---------------------------------------------------------------- C5
\* C5: an update whose id matches no stored record answers 404 and leaves
\* the ledger as it was.
C5_UnknownIdUpdate ==
  [][\A call \in updating :
       (update_help_request_store(call) /\ call.request_id \notin StoredIds) =>
         /\ response'.op = "update_help_request"
         /\ response'.code = HTTP_NOT_FOUND
         /\ response'.body = {}
         /\ help_requests' = help_requests]_vars

\* C5 witness: an update has just answered 404 while the ledger holds a
\* record.
C5_Witness ==
  /\ response.op = "update_help_request"
  /\ response.code = HTTP_NOT_FOUND
  /\ help_requests # {}

\* ---------------------------------------------------------------- C6
\* C6: every step that changes the ledger either inserts the record of a
\* create call, or is the store step of one update call: that call leaves
\* the calls in flight, and the one record with its id becomes the record
\* currently stored with the call's status and the call's updatedAt, both
\* together; nothing else changes.
C6_AtomicUpdate ==
  [][\A after \in help_requests' \ help_requests :
       \/ /\ after \in creating
          /\ help_requests' = help_requests \cup {after}
       \/ \E call \in updating \ updating', before \in help_requests :
            /\ before.id = call.request_id
            /\ after = [before EXCEPT !.status = call.update_dict.status,
                                      !.updated_at = call.update_dict.updated_at]
            /\ help_requests' = (help_requests \ {before}) \cup {after}]_vars

\* C6 witness: two update calls on one record were in flight together; the
\* one with the later clock reading has been stored and the other, with
\* another status, is still to come.
C6_Witness ==
  /\ response.op = "update_help_request"
  /\ response.code = HTTP_OK
  /\ \E d \in response.body, call \in updating :
       /\ d \in help_requests
       /\ call.request_id = d.id
       /\ call.update_dict.status # d.status
       /\ call.update_dict.updated_at < d.updated_at

\* ---------------------------------------------------------------- C7
\* Bootstrap runs that read a count of zero (each draws one id per
\* reference instruction, and nothing else draws ids during startup).
SeedingRuns == uuid_count \div Len(instructions_data)

\* Catalog documents that carry reference instruction i.
Copies(i) ==
  {d \in emergency_instructions :
     /\ d.title = instructions_data[i].title
     /\ d.type = instructions_data[i].type}

\* C7: when no bootstrap is part-way through its inserts, the catalog holds
\* the reference set once per bootstrap run that read a count of zero.
C7_EveryZeroCountRunInsertsAll ==
  (\A p \in Procs : pc[p] \in {"start", "serving"}) =>
    /\ Cardinality(emergency_instructions) = SeedingRuns * Len(instructions_data)
    /\ \A i \in 1..Len(instructions_data) : Cardinality(Copies(i)) = SeedingRuns

\* C7 witness: two processes read a count of zero and both inserted the
\* whole set: the catalog holds every reference instruction twice.
C7_Witness ==
  /\ \A p \in Procs : pc[p] \in {"start", "serving"}
  /\ Cardinality(emergency_instructions) = 2 * Len(instructions_data)
  /\ \A i \in 1..Len(instructions_data) : Cardinality(Copies(i)) = 2

\* ---------------------------------------------------------------- C8
\* C8: once a bootstrap() call has returned (its process serves),
\* listByType(t) answers 200 with a non-empty result for every type t.
C8_CompleteAfterBootstrap ==
  Serving =>
    \A t \in EmergencyType :
      /\ get_instructions_by_type_response(t).code = HTTP_OK
      /\ get_instructions_by_type_response(t).body # {}

C10_GetContract ==
  /\ \A id \in RequestIds :
       LET got == get_help_request_response(id)
       IN  /\ got.code \in {HTTP_OK, HTTP_NOT_FOUND}
           /\ got.code = HTTP_NOT_FOUND <=> id \notin StoredIds
           /\ got.code = HTTP_NOT_FOUND => got.body = {}
           /\ got.code = HTTP_OK =>
                got.body = {d \in help_requests : d.id = id}
                  /\ Cardinality(got.body) = 1
  /\ response.code = HTTP_OK =>
       \A d \in response.body :
         get_help_request_response(d.id) = Response("get_help_request", HTTP_OK, {d})

\* C10 witness: get answers 404 for the id never issued and returns, for a
\* record updated to responded after its creation, the updated record.
C10_Witness ==
  /\ get_help_request_response(NonexistentId).code = HTTP_NOT_FOUND
  /\ response.op = "update_help_request"
  /\ \E d \in response.body :
       /\ d.status = "responded"
       /\ d.updated_at > d.created_at
       /\ get_help_request_response(d.id).body = {d}

\* ---------------------------------------------------------------- C11
\* C11: whatever the catalog holds, a serving process answers listByType
\* with a token outside the enumeration ("invalid_type") by 404.
C11_UnknownTypeNotFound ==
  Serving =>
    \A token \in TypeTokens \ EmergencyType :
      get_instructions_by_type_response(token).code = HTTP_NOT_FOUND

\* ---------------------------------------------------------------- C12
\* Catalog instructions of one type.
OfType(t) == {d \in emergency_instructions : d.type = t}

C13_ArbitraryTransitions ==
  [][\A call \in updating, before \in help_requests :
       (update_help_request_store(call) /\ before.id = call.request_id) =>
         /\ before.status \in HelpRequestStatus
         /\ response'.op = "update_help_request"
         /\ response'.code = HTTP_OK
         /\ \E after \in help_requests' :
              /\ response'.body = {after}
              /\ after.id = before.id
              /\ after.status = call.update_dict.status]_vars

\* C13 witness: an update has just moved a record to resolved, and a call
\* that moves the same record back to active is in flight.
C13_Witness ==
  /\ response.op = "update_help_request"
  /\ response.code = HTTP_OK
  /\ \E d \in response.body, call \in updating :
       /\ d \in help_requests
       /\ d.status = "resolved"
       /\ call.request_id = d.id
       /\ call.update_dict.status = "active"

\* ---------------------------------------------------------------- C14
\* C14: a create(input) whose location_description is the empty string is
\* answered 422, constructs no record and inserts none; every record
\* constructed or stored has a non-empty location_description and a type
\* of the enumeration.
C14_EmptyLocationRejected ==
  [][/\ \A body \in RequestBodies :
          (create_help_request(body) /\ body.location_description = "") =>
            /\ response'.op = "create_help_request"
            /\ response'.code = HTTP_UNPROCESSABLE
            /\ creating' = creating
            /\ help_requests' = help_requests
     /\ \A d \in creating' \cup help_requests' :
          /\ d.location_description # ""
          /\ d.emergency_type \in EmergencyType]_vars

\* ---------------------------------------------------------------- C15
\* C15: in every reachable state, every instruction of the catalog has as
\* many steps as voice_instructions.
C15_Parity ==
  \A d \in emergency_instructions : Len(d.steps) = Len(d.voice_instructions)

UpdatedFields == {"status", "updated_at"}

\* C17: the store step of a successful update(id, newStatus) replaces the
\* record of that id by a record with the same fields, equal to it in every
\* field but status and updated_at (id, created_at, emergency_type,
\* location_description, latitude, longitude, contact_phone and
\* additional_info are kept); every other ledger record and the catalog are
\* unchanged.
C17_UpdateFrame ==
  [][\A call \in updating :
       UpdateSucceeds(call) =>
         \E before \in help_requests, after \in help_requests' :
           /\ before.id = call.request_id
           /\ DOMAIN after = DOMAIN before
           /\ \A key \in DOMAIN before \ UpdatedFields : after[key] = before[key]
           /\ help_requests' \ {after} = help_requests \ {before}
           /\ Cardinality(help_requests') = Cardinality(help_requests)
           /\ emergency_instructions' = emergency_instructions]_vars

\* C17 witness: of two stored records, an update has just changed one: it
\* has left active, its updated_at is later than its created_at and it
\* still carries the fields of the body it was created from; the other
\* record is as created.
C17_Witness ==
  /\ response.op = "update_help_request"
  /\ response.code = HTTP_OK
  /\ \E d \in response.body, other \in help_requests :
       /\ d \in help_requests
       /\ d.status # "active"
       /\ d.updated_at > d.created_at
       /\ d.emergency_type = "choking"
       /\ d.location_description = "123 Test Street, Apartment 4B"
       /\ d.latitude = "40.7128"
       /\ d.longitude = "-74.0060"
       /\ d.contact_phone = "+1-555-0123"
       /\ d.additional_info = "Adult choking on food in restaurant"
       /\ other.id # d.id
       /\ other.status = "active"
       /\ other.updated_at = other.created_at

\* ---------------------------------------------------------------- C18
\* C18: once the catalog holds the whole reference set, each of the
\* severities minor, moderate, severe and critical is carried by at least
\* one of its instructions.
C18_SeverityCoverage ==
  (\A i \in 1..Len(instructions_data) : Copies(i) # {}) =>
    \A severity \in SeverityLevel :
      \E d \in emergency_instructions : d.severity = severity

C20_NoPartialCatalogRead ==
  Serving =>
    LET all == get_all_instructions_response.body
    IN  \/ all = {}
        \/ \A i \in 1..Len(instructions_data) :
             /\ Copies(i) \cap all # {}
             /\ Copies(i) \cap
                  get_instructions_by_type_response(instructions_data[i].type).body
                  # {}

\* ---------------------------------------------------------------- C21
\* C21: with the one clock that never goes backwards, every stored help
\* request has updated_at >= created_at, and the store step of a successful
\* update never leaves the record with an updated_at earlier than the one
\* it had, however the update calls on the id interleave.
C21_MonotonicUpdatedAt ==
  [][/\ \A d \in help_requests' : d.updated_at >= d.created_at
     /\ \A call \in updating :
          UpdateSucceeds(call) =>
            \A before \in help_requests, after \in help_requests' :
              (before.id = call.request_id /\ after.id = before.id) =>
                after.updated_at >= before.updated_at]_vars

\* ---------------------------------------------------------------- C22
\* C22: listActive() returns every stored record whose status is active,
\* however many there are.
C22_ListActiveComplete ==
  {d \in help_requests : d.status = "active"}
    \subseteq get_help_requests_response.body

=============================================================================
